---------------------------- MODULE Spec2Model ----------------------------
(***************************************************************************)
(* Model of the fundamental-data service: the ingestion job of             *)
(* insertion.py (scan, reconcile the metric catalog, extract rows, load    *)
(* them in chunks) and the read endpoints of api.py.                       *)
(*                                                                         *)
(* Encoding of Python values:                                              *)
(*  - a string that the code splits or tests token-wise (a fiscal label, a *)
(*    file name) is a sequence of tokens, "2021-12" being                  *)
(*    <<"2021", "-", "12">>; the empty string is <<>>;                     *)
(*  - block names, metric names and raw values are TLA+ strings;           *)
(*  - None in a list of raw values or labels is the token PyNone;          *)
(*  - an optional number is <<>> (None) or <<x>>;                          *)
(*  - a dict is a function, its keys the DOMAIN; a dict whose item order   *)
(*    the code iterates is a sequence of <<key, value>> pairs.             *)
(***************************************************************************)
EXTENDS Integers, Sequences, FiniteSets, TLC

\* ------------------------------------------------------------------ bounds
\* The concurrent invocations of main().
Runs == {"r1", "r2"}
\* Number of files the environment may add to DATA_FOLDER while runs execute.
MaxAdds == 1
\* main() flushes the batch when len(batch) > 50000; the model scales the
\* threshold down so that chunking happens on small corpora.
ChunkThreshold == 2

\* ------------------------------------------------------- encoding helpers
PyNone == "<None>"
\* SQL NULL / Python None in the fundamental_data_type_id column; serial ids
\* start at 1.
NULL_ID == 0

RECURSIVE Flatten(_)
Flatten(ss) == IF ss = <<>> THEN <<>> ELSE Head(ss) \o Flatten(Tail(ss))

Range(s) == {s[i] : i \in DOMAIN s}

\* ---------------------------------------------------------- insertion.py
FINANCIAL_BLOCKS ==
    << "per_share_data_array", "common_size_ratios", "income_statement",
       "balance_sheet", "cashflow_statement", "valuation_ratios",
       "valuation_and_quality" >>

PERIOD_TYPES == << "annuals", "quarterly" >>

\* filename.endswith(".json")
EndsWithJson(filename) ==
    Len(filename) > 0 /\ filename[Len(filename)] = ".json"

\* os.path.basename(filepath).replace(".json", "")
TickerOf(filename) == SelectSeq(filename, LAMBDA t : t # ".json")

\* float(v): the numeric literals of the corpus; anything else raises.
FloatLiterals == { <<"10", 10>>, <<"20", 20>>, <<"30", 30>>, <<"1e1", 10>>,
                   <<"-5", -5>> }

CanFloat(v) == \E p \in FloatLiterals : p[1] = v

float(v) == (CHOOSE p \in FloatLiterals : p[1] = v)[2]

valid_number(v) ==
    IF v \in {"N/A", "-", "", PyNone} THEN <<>>
    ELSE IF CanFloat(v) THEN << float(v) >>
    ELSE <<>>

\* fy.split("-"): the parts between the "-" tokens.
RECURSIVE SplitDash(_, _)
SplitDash(toks, cur) ==
    IF toks = <<>> THEN << cur >>
    ELSE IF Head(toks) = "-" THEN << cur >> \o SplitDash(Tail(toks), <<>>)
    ELSE SplitDash(Tail(toks), Append(cur, Head(toks)))

\* (year, month), or <<>> for (None, None).
extract_year_month(fy) ==
    IF fy = << PyNone >> \/ fy = <<>> \/ fy = << "TTM" >> \/ "-" \notin Range(fy)
    THEN <<>>
    ELSE LET parts == SplitDash(fy, <<>>) IN << parts[1], parts[2] >>

\* ------------------------------------------------------------ the corpus
\* The per-ticker documents the environment can put into DATA_FOLDER.  A
\* document is the dict json.load returns.
DocAAA ==
    "financials" :> (
        "annuals" :> (
            "Fiscal Year" :> << <<"2021", "-", "12">>, <<"2022", "-", "12">>,
                                <<"TTM">> >>
            @@ "income_statement" :> <<
                   << "Revenue", << "10", "20", "30" >> >>,
                   << "EPS", << "N/A", "1e1", "-" >> >> >>
            @@ "unrecognized_block" :> << << "Ignored", << "10" >> >> >> )
        @@ "quarterly" :> (
            "Fiscal Year" :> << <<"2022", "-", "03">>, <<"2022", "-", "03">> >>
            @@ "balance_sheet" :> << << "Assets", << "10", "20" >> >> >> ) )

\* Overlaps DocAAA: same ticker, same (annuals, 2021, 12, Revenue) fact.
DocAAA2 ==
    "financials" :> (
        "annuals" :> (
            "Fiscal Year" :> << <<"2021", "-", "12", "-", "31">>, <<PyNone>> >>
            @@ "income_statement" :> << << "Revenue", << "20", "abc" >> >> >> ) )

\* The value sequence is longer than the fiscal-label sequence.
DocBBB ==
    "financials" :> (
        "annuals" :> (
            "Fiscal Year" :> << <<"2021", "-", "12">> >>
            @@ "income_statement" :> << << "Revenue", << "10", "20" >> >> >> ) )

\* No fiscal-label sequence; labels without year or without separator.
DocCCC ==
    "financials" :> (
        "quarterly" :> (
            "balance_sheet" :> << << "Assets", << "", PyNone >> >> >> )
        @@ "annuals" :> (
            "Fiscal Year" :> << <<"2023", "-">>, <<"-", "12">>, <<"2021">>,
                                <<>>, <<"2020", "-", "06">> >>
            @@ "valuation_ratios" :> << << "PE", << "-5", "10", "10", "10" >> >> >> ) )

DocNoFinancials == "meta" :> "EEE"

CandidateFiles ==
    { [name |-> <<"AAA", ".json">>, data |-> DocAAA],
      [name |-> <<"AAA", ".json", ".json">>, data |-> DocAAA2],
      [name |-> <<"BBB", ".json">>, data |-> DocBBB],
      [name |-> <<"CCC", ".json">>, data |-> DocCCC],
      [name |-> <<"EEE", ".json">>, data |-> DocNoFinancials],
      [name |-> <<"notes", ".txt">>, data |-> DocAAA] }

File(n) == CHOOSE f \in CandidateFiles : f.name = n

\* The directory listings an ingestion batch can start from, in os.listdir
\* order.
InitialCorpora ==
    { << <<"AAA", ".json">>, <<"AAA", ".json", ".json">> >>,
      << <<"AAA", ".json", ".json">>, <<"notes", ".txt">>, <<"AAA", ".json">> >>,
      << <<"AAA", ".json">>, <<"BBB", ".json">> >>,
      << <<"EEE", ".json">>, <<"CCC", ".json">> >>,
      << <<"CCC", ".json">>, <<"AAA", ".json">> >> }

\* ---------------------------------------------------------- insertion.py
\* The (block, metric) pairs of one document: the body of the file loop.
DocMetricNames(data) ==
    IF "financials" \notin DOMAIN data THEN {}
    ELSE LET financials == data["financials"] IN
         UNION { IF period_type \notin DOMAIN financials THEN {}
                 ELSE LET period_block == financials[period_type] IN
                      UNION { IF block_name \in DOMAIN period_block
                              THEN { << block_name, item[1] >> :
                                        item \in Range(period_block[block_name]) }
                              ELSE {}
                              : block_name \in Range(FINANCIAL_BLOCKS) }
                 : period_type \in Range(PERIOD_TYPES) }

\* metrics: the set of (block, metric) pairs found in the listed .json files.
scan_all_metric_names(listing) ==
    UNION { IF EndsWithJson(filename) THEN DocMetricNames(File(filename).data)
            ELSE {}
            : filename \in Range(listing) }

\* mapping[block_name].get(metric_name)
MappingGet(map, block_name, metric_name) ==
    IF << block_name, metric_name >> \in DOMAIN map
    THEN map[<< block_name, metric_name >>]
    ELSE NULL_ID

\* One pass of the loop over enumerate(values_list): for each idx either a row,
\* "skip" (continue) or "IndexError" (fiscal_years[idx] out of range).
IndexOutcome(ticker, period_type, fiscal_years, metric_id, values_list, idx) ==
    LET value == valid_number(values_list[idx]) IN
    IF value = <<>> THEN [kind |-> "skip"]
    ELSE IF idx > Len(fiscal_years) THEN [kind |-> "IndexError"]
    ELSE LET ym == extract_year_month(fiscal_years[idx]) IN
         IF ym = <<>> \/ ym[1] = <<>> THEN [kind |-> "skip"]
         ELSE [kind |-> "row",
               row  |-> [ticker |-> ticker, period |-> period_type,
                         year |-> ym[1], month |-> ym[2],
                         fundamental_data_type_id |-> metric_id,
                         value |-> value[1]]]

\* The outcomes of every index of every metric of the file, in the order the
\* loops visit them.
FileOutcomes(filename, map) ==
    LET data == File(filename).data
        ticker == TickerOf(filename)
    IN
    IF "financials" \notin DOMAIN data THEN <<>>
    ELSE LET financials == data["financials"]
             OfMetric(period_type, fiscal_years, block_name, item) ==
                 [idx \in 1..Len(item[2]) |->
                     IndexOutcome(ticker, period_type, fiscal_years,
                                  MappingGet(map, block_name, item[1]),
                                  item[2], idx)]
             OfBlock(period_type, period_block, fiscal_years, block_name) ==
                 IF block_name \notin DOMAIN period_block THEN <<>>
                 ELSE Flatten([i \in 1..Len(period_block[block_name]) |->
                                  OfMetric(period_type, fiscal_years, block_name,
                                           period_block[block_name][i])])
             OfPeriod(period_type) ==
                 IF period_type \notin DOMAIN financials THEN <<>>
                 ELSE LET period_block == financials[period_type]
                          fiscal_years ==
                              IF "Fiscal Year" \in DOMAIN period_block
                              THEN period_block["Fiscal Year"] ELSE <<>>
                      IN Flatten([b \in 1..Len(FINANCIAL_BLOCKS) |->
                                     OfBlock(period_type, period_block,
                                             fiscal_years, FINANCIAL_BLOCKS[b])])
         IN Flatten([p \in 1..Len(PERIOD_TYPES) |-> OfPeriod(PERIOD_TYPES[p])])

\* process_file: [raised |-> TRUE] when an IndexError escapes, else the rows.
process_file(filename, map) ==
    LET out == FileOutcomes(filename, map) IN
    IF \E i \in DOMAIN out : out[i].kind = "IndexError"
    THEN [raised |-> TRUE, rows |-> <<>>]
    ELSE [raised |-> FALSE,
          rows |-> LET kept == SelectSeq(out, LAMBDA o : o.kind = "row")
                   IN [i \in 1..Len(kept) |-> kept[i].row]]

\* A faulty variant: the constraint also covers the value column.
UniqueKeyWithValue(row) ==
    << row.ticker, row.period, row.year, row.month, row.fundamental_data_type_id,
       row.value >>

\* The columns of constraint fundamental_data_unique.
UniqueKey(row) ==
    << row.ticker, row.period, row.year, row.month, row.fundamental_data_type_id >>

\* INSERT ... VALUES rows ON CONFLICT ON CONSTRAINT fundamental_data_unique DO
\* NOTHING: the rows the statement adds to a table holding `stored`.
\* A faulty variant: a plain INSERT, without the ON CONFLICT clause.
PlainInsert(stored, rows) == rows

RECURSIVE OnConflictDoNothing(_, _)
OnConflictDoNothing(stored, rows) ==
    IF rows = <<>> THEN <<>>
    ELSE IF \E s \in Range(stored) : UniqueKey(s) = UniqueKey(Head(rows))
         THEN OnConflictDoNothing(stored, Tail(rows))
         ELSE << Head(rows) >>
              \o OnConflictDoNothing(Append(stored, Head(rows)), Tail(rows))

\* ------------------------------------------------------------------ state
VARIABLES
    corpus,                 \* DATA_FOLDER: the file names, in os.listdir order
    adds,                   \* files added to DATA_FOLDER so far
    fundamental_data_type,  \* committed rows of the catalog table
    type_id_seq,            \* the serial sequence behind fundamental_data_type.id
    fundamental_data,       \* committed rows of the observation table, in heap order
    pc,                     \* where each invocation of main() stands
    status,                 \* "running", "done", "crashed" or the exception raised
    metrics,                \* main(): metrics
    existing,               \* create_fundamental_data_type_rows: existing
    mapping,                \* create_fundamental_data_type_rows / main(): mapping
    todo,                   \* the (block, metric) pairs the reconcile loop has left
    type_tx,                \* uncommitted catalog rows of the run's transaction
    listing,                \* main(): what is left of os.listdir(DATA_FOLDER)
    batch,                  \* main(): batch
    data_tx,                \* uncommitted observation rows of the run's transaction
    startCorpus,            \* history: the corpus when the run started
    startPhase,            \* history: the phase of every run when the run started
    response                \* api.py: the last request served and its response

vars == << corpus, adds, fundamental_data_type, type_id_seq, fundamental_data,
           pc, status, metrics, existing, mapping, todo, type_tx, listing,
           batch, data_tx, startCorpus, startPhase, response >>

dbVars == << fundamental_data_type, type_id_seq, fundamental_data >>
envVars == << corpus, adds >>
histVars == << startCorpus, startPhase >>

EmptyMap == [p \in {} |-> NULL_ID]

PairOf(t) == << t.type, t.name >>

\* The catalogs an ingestion batch can find: empty, or left by an earlier batch.
InitialCatalogs ==
    { {}, { [id |-> 1, type |-> "income_statement", name |-> "Revenue"] } }

Init ==
    /\ corpus \in InitialCorpora
    /\ adds = 0
    /\ fundamental_data_type \in InitialCatalogs
    /\ type_id_seq = Cardinality(fundamental_data_type) + 1
    /\ fundamental_data = <<>>
    /\ pc = [r \in Runs |-> "scan"]
    /\ status = [r \in Runs |-> "running"]
    /\ metrics = [r \in Runs |-> {}]
    /\ existing = [r \in Runs |-> EmptyMap]
    /\ mapping = [r \in Runs |-> EmptyMap]
    /\ todo = [r \in Runs |-> {}]
    /\ type_tx = [r \in Runs |-> {}]
    /\ listing = [r \in Runs |-> <<>>]
    /\ batch = [r \in Runs |-> <<>>]
    /\ data_tx = [r \in Runs |-> <<>>]
    /\ startCorpus = [r \in Runs |-> <<>>]
    /\ startPhase = [r \in Runs |-> [o \in Runs |-> "pass2"]]
    /\ response = [call |-> "none"]

\* How far a run has come: how it ended, or whether it has committed the
\* catalog yet.
Phase(r) ==
    IF status[r] # "running" THEN status[r]
    ELSE IF pc[r] \in {"scan", "select", "reconcile"} THEN "pass2"
    ELSE "pass3"

At(r, where) == status[r] = "running" /\ pc[r] = where

\* An uncaught exception (or a kill) ends the process: its memory is gone, the
\* connection closes and its open transaction is rolled back.
Abort(r, how) ==
    /\ status' = [status EXCEPT ![r] = how]
    /\ type_tx' = [type_tx EXCEPT ![r] = {}]
    /\ data_tx' = [data_tx EXCEPT ![r] = <<>>]
    /\ metrics' = [metrics EXCEPT ![r] = {}]
    /\ existing' = [existing EXCEPT ![r] = EmptyMap]
    /\ mapping' = [mapping EXCEPT ![r] = EmptyMap]
    /\ todo' = [todo EXCEPT ![r] = {}]
    /\ listing' = [listing EXCEPT ![r] = <<>>]
    /\ batch' = [batch EXCEPT ![r] = <<>>]

\* ------------------------------------------------------------ environment
\* A file appears in DATA_FOLDER.
AddFile(f) ==
    /\ adds < MaxAdds
    /\ f.name \notin Range(corpus)
    /\ corpus' = Append(corpus, f.name)
    /\ adds' = adds + 1
    /\ UNCHANGED << dbVars, pc, status, metrics, existing, mapping, todo,
                    type_tx, listing, batch, data_tx, histVars, response >>

\* The process is killed.
Crash(r) ==
    /\ status[r] = "running"
    /\ pc[r] # "scan"
    /\ Abort(r, "crashed")
    /\ UNCHANGED << envVars, dbVars, pc, histVars, response >>

\* ------------------------------------------------------- main(): pass 1
Scan(r) ==
    /\ At(r, "scan")
    /\ metrics' = [metrics EXCEPT ![r] = scan_all_metric_names(corpus)]
    /\ pc' = [pc EXCEPT ![r] = "select"]
    /\ startCorpus' = [startCorpus EXCEPT ![r] = corpus]
    /\ startPhase' = [startPhase EXCEPT ![r] = [o \in Runs |-> Phase(o)]]
    /\ UNCHANGED << envVars, dbVars, status, existing, mapping, todo, type_tx,
                    listing, batch, data_tx, response >>

\* ------------------------------------------------------- main(): pass 2
\* A faulty variant: the existing catalog rows are not loaded.
ExistingNotLoaded(table) == EmptyMap

\* SELECT type, name, id FROM fundamental_data_type, as a dict.
ExistingOf(table) ==
    [p \in {PairOf(t) : t \in table} |->
        (CHOOSE t \in table : PairOf(t) = p).id]

Select(r) ==
    /\ At(r, "select")
    /\ existing' = [existing EXCEPT ![r] = ExistingOf(fundamental_data_type)]
    /\ mapping' = [mapping EXCEPT ![r] = EmptyMap]
    /\ todo' = [todo EXCEPT ![r] = metrics[r]]
    /\ pc' = [pc EXCEPT ![r] = "reconcile"]
    /\ UNCHANGED << envVars, dbVars, status, metrics, type_tx, listing, batch,
                    data_tx, histVars, response >>

BlockIndex(block) == CHOOSE i \in DOMAIN FINANCIAL_BLOCKS : FINANCIAL_BLOCKS[i] = block

\* metrics.items() follows FINANCIAL_BLOCKS; a block's set of names is iterated
\* in any order.
NextPairs(r) ==
    { p \in todo[r] : \A q \in todo[r] : BlockIndex(p[1]) <= BlockIndex(q[1]) }

\* The (block, name) pairs other open transactions have inserted: an INSERT of
\* one of them waits for that transaction to end.
LockedPairs(r) ==
    UNION { {PairOf(t) : t \in type_tx[o]} : o \in Runs \ {r} }

\* The storage schema's unique(statementBlock, metricName).
TypeUniqueViolated(table, p) == \E t \in table : PairOf(t) = p

ReconcileExisting(r, p) ==
    /\ At(r, "reconcile")
    /\ p \in NextPairs(r)
    /\ p \in DOMAIN existing[r]
    /\ mapping' = [mapping EXCEPT ![r] = (p :> existing[r][p]) @@ @]
    /\ todo' = [todo EXCEPT ![r] = @ \ {p}]
    /\ UNCHANGED << envVars, dbVars, pc, status, metrics, existing, type_tx,
                    listing, batch, data_tx, histVars, response >>

\* INSERT INTO fundamental_data_type (type, name) VALUES ... RETURNING id
ReconcileInsert(r, p) ==
    /\ At(r, "reconcile")
    /\ p \in NextPairs(r)
    /\ p \notin DOMAIN existing[r]
    /\ p \notin LockedPairs(r)
    /\ type_id_seq' = type_id_seq + 1
    /\ IF TypeUniqueViolated(fundamental_data_type, p)
       THEN Abort(r, "UniqueViolation")
       ELSE /\ type_tx' = [type_tx EXCEPT ![r] =
                  @ \cup {[id |-> type_id_seq, type |-> p[1], name |-> p[2]]}]
            /\ mapping' = [mapping EXCEPT ![r] = (p :> type_id_seq) @@ @]
            /\ todo' = [todo EXCEPT ![r] = @ \ {p}]
            /\ UNCHANGED << status, data_tx, metrics, existing, listing, batch >>
    /\ UNCHANGED << envVars, fundamental_data_type, fundamental_data, pc,
                    histVars, response >>

\* Two inserting transactions wait for each other: the store aborts one.
DeadlockDetected(r) ==
    /\ At(r, "reconcile")
    /\ \E o \in Runs \ {r} :
          /\ At(o, "reconcile")
          /\ \E p \in NextPairs(r) : p \notin DOMAIN existing[r]
                                     /\ p \in {PairOf(t) : t \in type_tx[o]}
          /\ \E q \in NextPairs(o) : q \notin DOMAIN existing[o]
                                     /\ q \in {PairOf(t) : t \in type_tx[r]}
    /\ Abort(r, "DeadlockDetected")
    /\ UNCHANGED << envVars, dbVars, pc, histVars, response >>

\* conn.commit() at the end of create_fundamental_data_type_rows
CommitTypes(r) ==
    /\ At(r, "reconcile")
    /\ todo[r] = {}
    /\ fundamental_data_type' = fundamental_data_type \cup type_tx[r]
    /\ type_tx' = [type_tx EXCEPT ![r] = {}]
    /\ pc' = [pc EXCEPT ![r] = "listdir"]
    /\ UNCHANGED << envVars, type_id_seq, fundamental_data, status, metrics,
                    existing, mapping, todo, listing, batch, data_tx, histVars, response >>

\* ------------------------------------------------------- main(): pass 3
ListDir(r) ==
    /\ At(r, "listdir")
    /\ listing' = [listing EXCEPT ![r] = corpus]
    /\ batch' = [batch EXCEPT ![r] = <<>>]
    /\ pc' = [pc EXCEPT ![r] = "extract"]
    /\ UNCHANGED << envVars, dbVars, status, metrics, existing, mapping, todo,
                    type_tx, data_tx, histVars, response >>

\* One iteration of the file loop, up to the call of insert_fundamental_data.
ProcessFile(r) ==
    /\ At(r, "extract")
    /\ listing[r] # <<>>
    /\ LET filename == Head(listing[r])
           res == process_file(filename, mapping[r])
       IN IF ~EndsWithJson(filename)
          THEN /\ listing' = [listing EXCEPT ![r] = Tail(@)]
               /\ UNCHANGED << pc, status, batch, type_tx, data_tx, metrics,
                               existing, mapping, todo >>
          ELSE IF res.raised
          THEN /\ Abort(r, "IndexError")
               /\ UNCHANGED pc
          ELSE /\ listing' = [listing EXCEPT ![r] = Tail(@)]
               /\ batch' = [batch EXCEPT ![r] = @ \o res.rows]
               /\ pc' = [pc EXCEPT ![r] =
                          IF Len(batch'[r]) > ChunkThreshold
                          THEN "insert_chunk" ELSE "extract"]
               /\ UNCHANGED << status, type_tx, data_tx, metrics, existing,
                               mapping, todo >>
    /\ UNCHANGED << envVars, dbVars, histVars, response >>

\* Rows other open transactions have inserted under the same unique key: the
\* INSERT waits for those transactions to end.
DataLocked(r, rows) ==
    \E o \in Runs \ {r} : \E x \in Range(data_tx[o]) : \E y \in Range(rows) :
        UniqueKey(x) = UniqueKey(y)

\* fundamental_data_type_id is NOT NULL.
NotNullViolated(rows) ==
    \E x \in Range(rows) : x.fundamental_data_type_id = NULL_ID

\* insert_fundamental_data up to execute_values; the call after the file loop
\* is the one made with listing exhausted.
ExecuteValues(r) ==
    /\ \/ At(r, "insert_chunk")
       \/ At(r, "extract") /\ listing[r] = <<>>
    /\ IF batch[r] = <<>>
       THEN /\ status' = [status EXCEPT ![r] = "done"]
            /\ UNCHANGED << pc, type_tx, data_tx, metrics, existing, mapping,
                            todo, listing, batch >>
       ELSE /\ ~DataLocked(r, batch[r])
            /\ IF NotNullViolated(batch[r])
               THEN /\ Abort(r, "NotNullViolation")
                    /\ UNCHANGED pc
               ELSE /\ data_tx' = [data_tx EXCEPT ![r] =
                          OnConflictDoNothing(fundamental_data, batch[r])]
                    /\ pc' = [pc EXCEPT ![r] =
                          IF pc[r] = "insert_chunk" THEN "commit_chunk"
                          ELSE "commit_final"]
                    /\ UNCHANGED << status, type_tx, metrics, existing,
                                    mapping, todo, listing, batch >>
    /\ UNCHANGED << envVars, dbVars, histVars, response >>

\* conn.commit() at the end of insert_fundamental_data, and batch = []
CommitData(r) ==
    /\ \/ At(r, "commit_chunk")
       \/ At(r, "commit_final")
    /\ fundamental_data' = fundamental_data \o data_tx[r]
    /\ data_tx' = [data_tx EXCEPT ![r] = <<>>]
    /\ IF pc[r] = "commit_chunk"
       THEN /\ batch' = [batch EXCEPT ![r] = <<>>]
            /\ pc' = [pc EXCEPT ![r] = "extract"]
            /\ UNCHANGED status
       ELSE /\ status' = [status EXCEPT ![r] = "done"]
            /\ UNCHANGED << pc, batch >>
    /\ UNCHANGED << envVars, fundamental_data_type, type_id_seq, metrics,
                    existing, mapping, todo, type_tx, listing, histVars, response >>

Pairs == UNION { DocMetricNames(f.data) : f \in CandidateFiles }

Next ==
    \/ \E f \in CandidateFiles : AddFile(f)
    \/ \E r \in Runs : Crash(r)
    \/ \E r \in Runs : Scan(r)
    \/ \E r \in Runs : Select(r)
    \/ \E r \in Runs : \E p \in Pairs : ReconcileExisting(r, p)
    \/ \E r \in Runs : \E p \in Pairs : ReconcileInsert(r, p)
    \/ \E r \in Runs : DeadlockDetected(r)
    \/ \E r \in Runs : CommitTypes(r)
    \/ \E r \in Runs : ListDir(r)
    \/ \E r \in Runs : ProcessFile(r)
    \/ \E r \in Runs : ExecuteValues(r)
    \/ \E r \in Runs : CommitData(r)

Spec == Init /\ [][Next]_vars

\* ------------------------------------------------------------------ api.py
\* db.query(FundamentalData).join(FundamentalDataType): each observation with
\* the catalog row its foreign key references.
Joined(data, types) ==
    LET hit == SelectSeq(data, LAMBDA d :
                   \E t \in types : t.id = d.fundamental_data_type_id)
    IN [i \in 1..Len(hit) |->
           [data |-> hit[i],
            data_type |-> CHOOSE t \in types :
                              t.id = hit[i].fundamental_data_type_id]]

\* Python truthiness of an optional query parameter: None and "" are falsy.
TruthyStr(v) == v # PyNone /\ v # ""

\* A faulty variant: the parameter is tested with "is not None".
NotNoneToks(v) == v # << PyNone >>

TruthyToks(v) == v # << PyNone >> /\ v # <<>>

\* get_data_by_ticker: [code |-> 404] or [code |-> 200, body |-> result].
get_data_by_ticker(ticker, period, year, month, statement_type, name) ==
    LET q0 == SelectSeq(Joined(fundamental_data, fundamental_data_type),
                        LAMBDA j : j.data.ticker = ticker)
        q1 == IF TruthyStr(period)
              THEN SelectSeq(q0, LAMBDA j : j.data.period = period) ELSE q0
        q2 == IF TruthyToks(year)
              THEN SelectSeq(q1, LAMBDA j : j.data.year = year) ELSE q1
        q3 == IF TruthyToks(month)
              THEN SelectSeq(q2, LAMBDA j : j.data.month = month) ELSE q2
        q4 == IF TruthyStr(statement_type)
              THEN SelectSeq(q3, LAMBDA j : j.data_type.type = statement_type)
              ELSE q3
        result == IF TruthyStr(name)
                  THEN SelectSeq(q4, LAMBDA j : j.data_type.name = name) ELSE q4
    IN IF result = <<>> THEN [code |-> 404] ELSE [code |-> 200, body |-> result]

\* SELECT DISTINCT over a row sequence: the first occurrence of each row.
RECURSIVE Distinct(_)
Distinct(rows) ==
    IF rows = <<>> THEN <<>>
    ELSE LET init == Distinct(SubSeq(rows, 1, Len(rows) - 1))
             last == rows[Len(rows)]
         IN IF last \in Range(init) THEN init ELSE Append(init, last)

\* A faulty variant: the query is not filtered by ticker.
AvailabilityRowsOfAll(ticker) ==
    Distinct([i \in 1..Len(fundamental_data) |->
                 << fundamental_data[i].period, fundamental_data[i].year,
                    fundamental_data[i].month >>])

\* db.query(period, year, month).filter(ticker == ticker).distinct().all()
AvailabilityRows(ticker) ==
    LET mine == SelectSeq(fundamental_data, LAMBDA d : d.ticker = ticker)
    IN Distinct([i \in 1..Len(mine) |->
                    << mine[i].period, mine[i].year, mine[i].month >>])

\* The loop of get_ticker_availability over rows[1..n]: availability and
\* unique_set after n iterations.
RECURSIVE AvailabilityLoop(_, _)
AvailabilityLoop(rows, n) ==
    IF n = 0 THEN [availability |-> [p \in {} |-> <<>>], unique_set |-> {}]
    ELSE LET before == AvailabilityLoop(rows, n - 1)
             key == rows[n]
             period == key[1]
             entry == [year |-> key[2], month |-> key[3]]
         IN IF key \in before.unique_set THEN before
            ELSE [availability |->
                      IF period \in DOMAIN before.availability
                      THEN [before.availability EXCEPT ![period] = Append(@, entry)]
                      ELSE (period :> << entry >>) @@ before.availability,
                  unique_set |-> before.unique_set \cup {key}]

\* get_ticker_availability: [code |-> 404] or [code |-> 200, body |-> availability].
get_ticker_availability(ticker) ==
    LET rows == AvailabilityRows(ticker) IN
    IF rows = <<>> THEN [code |-> 404]
    ELSE [code |-> 200,
          body |-> AvailabilityLoop(rows, Len(rows)).availability]

\* The requests the model sends.
QueryTickers == { <<"AAA">>, <<"CCC">>, <<"ZZZ">> }
QueryPeriods == { PyNone, "annuals", "quarterly" }
QueryYears == { << PyNone >>, <<>>, <<"2021">>, <<"2023">> }
QueryMonths == { << PyNone >>, <<>>, <<"12">> }
QueryStatementTypes == { PyNone, "income_statement", "other" }
QueryNames == { PyNone, "", "Revenue" }

GetDataByTicker(ticker, period, year, month, statement_type, name) ==
    /\ response.call = "none"
    /\ response' =
          [call |-> "get_data_by_ticker", ticker |-> ticker, period |-> period,
           year |-> year, month |-> month, statement_type |-> statement_type,
           name |-> name,
           result |-> get_data_by_ticker(ticker, period, year, month,
                                         statement_type, name)]
    /\ UNCHANGED << envVars, dbVars, pc, status, metrics, existing, mapping,
                    todo, type_tx, listing, batch, data_tx, histVars >>

GetTickerAvailability(ticker) ==
    /\ response.call = "none"
    /\ response' = [call |-> "get_ticker_availability", ticker |-> ticker,
                    result |-> get_ticker_availability(ticker)]
    /\ UNCHANGED << envVars, dbVars, pc, status, metrics, existing, mapping,
                    todo, type_tx, listing, batch, data_tx, histVars >>

\* The response leaves the server, which takes the next request.
Reply ==
    /\ response.call # "none"
    /\ response' = [call |-> "none"]
    /\ UNCHANGED << envVars, dbVars, pc, status, metrics, existing, mapping,
                    todo, type_tx, listing, batch, data_tx, histVars >>

\* The API server over a store that one ingestion batch is loading.
ApiRun == "r1"

ApiNext ==
    \/ Reply
    \/ Crash(ApiRun)
    \/ Scan(ApiRun)
    \/ Select(ApiRun)
    \/ \E p \in Pairs : ReconcileExisting(ApiRun, p)
    \/ \E p \in Pairs : ReconcileInsert(ApiRun, p)
    \/ CommitTypes(ApiRun)
    \/ ListDir(ApiRun)
    \/ ProcessFile(ApiRun)
    \/ ExecuteValues(ApiRun)
    \/ CommitData(ApiRun)
    \/ \E t \in QueryTickers, p \in QueryPeriods, y \in QueryYears,
          m \in QueryMonths, s \in QueryStatementTypes, n \in QueryNames :
          GetDataByTicker(t, p, y, m, s, n)
    \/ \E t \in QueryTickers : GetTickerAvailability(t)

ApiSpec == Init /\ [][ApiNext]_vars

\* ------------------------------------------------------- ingestion claims
Errors == { "IndexError", "UniqueViolation", "DeadlockDetected", "NotNullViolation" }

\* The steps of pass 3, which follow the commit of the catalog.
Pass3 == { "listdir", "extract", "insert_chunk", "commit_chunk", "commit_final" }

\* The rows every listed file yields, in listing order.
AllRows(files, map) ==
    Flatten([i \in 1..Len(files) |->
                IF EndsWithJson(files[i]) THEN process_file(files[i], map).rows
                ELSE <<>>])

KeyOf(row) ==
    << row.ticker, row.period, row.year, row.month, row.fundamental_data_type_id >>

\* r2 started after r1 had finished, and the corpus is the one r1 started on.
RerunOf(r1, r2, phase, folder) ==
    /\ r1 # r2
    /\ phase[r2][r1] = "done"
    /\ startCorpus[r1] = folder

\* C1: once a complete ingestion run has finished, every step of a later run
\* over the unchanged corpus leaves the stored observations as they are and
\* raises no error.
C1_IdempotentLoad ==
    [][\A r1, r2 \in Runs :
          (RerunOf(r1, r2, startPhase', corpus') /\ pc'[r2] # "scan")
          => /\ fundamental_data' = fundamental_data
             /\ status'[r2] \notin Errors]_vars

C1_Witness ==
    \E r1, r2 \in Runs :
        /\ RerunOf(r1, r2, startPhase, corpus)
        /\ status[r2] = "done"
        /\ batch[r2] # <<>>
        /\ fundamental_data # <<>>

\* C9: a stored observation is never changed or removed, and no two stored
\* rows share (ticker, period, year, month, metricTypeId).
C9_FirstWriteWins ==
    [][/\ Len(fundamental_data') >= Len(fundamental_data)
       /\ SubSeq(fundamental_data', 1, Len(fundamental_data)) = fundamental_data
       /\ \A i, j \in DOMAIN fundamental_data' :
             i # j => KeyOf(fundamental_data'[i]) # KeyOf(fundamental_data'[j])]_vars

\* A finished run whose batch held a row that conflicts with a stored row of
\* another value.
C9_Witness ==
    \E r \in Runs :
        /\ status[r] = "done"
        /\ \E b \in Range(batch[r]) : \E d \in Range(fundamental_data) :
              KeyOf(b) = KeyOf(d) /\ b.value # d.value

\* C10: a Metric Catalog Builder run that starts after another one has
\* committed, over the same corpus, inserts no catalog entry and builds the
\* same mapping; the (block, name) pair stays unique in the catalog.
BuilderDone(phase) == phase \in {"pass3", "done"}

C10_IdempotentCatalog ==
    /\ \A t1, t2 \in fundamental_data_type :
          (t1.type = t2.type /\ t1.name = t2.name) => t1 = t2
    /\ \A r1, r2 \in Runs :
          ( /\ r1 # r2
            /\ BuilderDone(startPhase[r2][r1])
            /\ startCorpus[r1] = startCorpus[r2]
            /\ pc[r2] \notin {"scan", "select"} )
          => /\ type_tx[r2] = {}
             /\ status[r2] \notin {"UniqueViolation", "DeadlockDetected"}
             /\ (status[r1] \in {"running", "done"}
                 /\ status[r2] \in {"running", "done"})
                => /\ \A p \in DOMAIN mapping[r2] :
                         mapping[r2][p] = mapping[r1][p]
                   /\ pc[r2] # "reconcile"
                         => DOMAIN mapping[r2] = DOMAIN mapping[r1]

C10_Witness ==
    \E r1, r2 \in Runs :
        /\ r1 # r2
        /\ BuilderDone(startPhase[r2][r1])
        /\ startCorpus[r1] = startCorpus[r2]
        /\ pc[r2] = "listdir"
        /\ Cardinality(DOMAIN mapping[r2]) >= 2
        /\ \E p \in DOMAIN mapping[r1] : mapping[r1][p] >= 2

\* C2: concurrent reconciliations that find the same new (block, name) pair
\* both succeed, agree on its id, and leave one catalog entry for it.
C2_ConcurrentBuilders ==
    /\ \A r \in Runs : status[r] # "UniqueViolation"
    /\ \A r1, r2 \in Runs :
          (pc[r1] \in Pass3 /\ pc[r2] \in Pass3)
          => \A p \in DOMAIN mapping[r1] \cap DOMAIN mapping[r2] :
                /\ mapping[r1][p] = mapping[r2][p]
                /\ Cardinality({t \in fundamental_data_type : PairOf(t) = p}) = 1

\* C6: no tuple with an unresolved metric id reaches the Batch Loader, and a
\* missing mapping does not abort the chunk.
C6_MissingMappingSkipped ==
    \A r \in Runs :
        /\ \A b \in Range(batch[r]) : b.fundamental_data_type_id # NULL_ID
        /\ status[r] # "NotNullViolation"

\* C7: extraction raises no out-of-bounds error when a value sequence is
\* longer than the fiscal-label sequence.
C7_NoIndexError ==
    \A r \in Runs : status[r] # "IndexError"

\* C3: after a run stopped in pass 3, the store holds whole chunks only, and a
\* re-run over the same corpus raises no error and ends with the observations
\* of an uninterrupted run.
C3_CrashResumable ==
    \A r1, r2 \in Runs :
        ( /\ r1 # r2
          /\ startPhase[r2][r1] \in {"crashed"} \cup Errors
          /\ pc[r1] \in Pass3
          /\ startCorpus[r1] = corpus
          /\ pc[r2] # "scan" )
        => /\ status[r2] \notin Errors
           /\ status[r2] = "done" =>
                 fundamental_data =
                     OnConflictDoNothing(<<>>,
                         AllRows(corpus, ExistingOf(fundamental_data_type)))

\* C8: in pass 3 the catalog transaction is committed, and every tuple handed
\* to the Batch Loader references a persisted catalog id.
C8_TwoPassOrdering ==
    \A r \in Runs :
        /\ pc[r] \in Pass3 => type_tx[r] = {}
        /\ \A b \in Range(batch[r]) :
              \E t \in fundamental_data_type : t.id = b.fundamental_data_type_id

\* ------------------------------------------------------------- API claims
\* The step in which the server answers a request.
Served(call) == response.call = "none" /\ response'.call = call

MetricTypeOf(d) ==
    CHOOSE t \in fundamental_data_type : t.id = d.fundamental_data_type_id

\* The observation matches every filter of the request that counts as supplied.
MatchesRequest(d, req, SuppliedStr(_), SuppliedToks(_)) ==
    /\ d.ticker = req.ticker
    /\ SuppliedStr(req.period) => d.period = req.period
    /\ SuppliedToks(req.year) => d.year = req.year
    /\ SuppliedToks(req.month) => d.month = req.month
    /\ SuppliedStr(req.statement_type) => MetricTypeOf(d).type = req.statement_type
    /\ SuppliedStr(req.name) => MetricTypeOf(d).name = req.name

\* The response is NotFound when nothing matches, else the matching stored
\* observations, each once.
ExactAnswer(req, SuppliedStr(_), SuppliedToks(_)) ==
    LET hits == SelectSeq(fundamental_data,
                    LAMBDA d : MatchesRequest(d, req, SuppliedStr, SuppliedToks))
    IN IF hits = <<>> THEN req.result.code = 404
       ELSE /\ req.result.code = 200
            /\ [i \in 1..Len(req.result.body) |-> req.result.body[i].data] = hits
            /\ \A i \in 1..Len(req.result.body) :
                  req.result.body[i].data_type = MetricTypeOf(hits[i])

GivenStr(v) == v # PyNone
GivenToks(v) == v # << PyNone >>
NonEmptyStr(v) == v # PyNone /\ v # ""
NonEmptyToks(v) == v # << PyNone >> /\ v # <<>>

\* C4 as claimed: queryObservations returns exactly the observations of the
\* ticker that match every supplied filter, and NotFound when there is none.
C4_ExactFilters ==
    [][Served("get_data_by_ticker")
       => ExactAnswer(response', GivenStr, GivenToks)]_vars

\* C4 as amended: a filter supplied as the empty string counts as omitted.
C4_ExactNonEmptyFilters ==
    [][Served("get_data_by_ticker")
       => ExactAnswer(response', NonEmptyStr, NonEmptyToks)]_vars

C4_Witness ==
    /\ response.call = "get_data_by_ticker"
    /\ response.period = "annuals"
    /\ response.name = "Revenue"
    /\ response.year = <<>>
    /\ response.result.code = 200
    /\ Len(response.result.body) >= 2
    /\ \E d \in Range(fundamental_data) :
          d.ticker = response.ticker /\ d.period # "annuals"

\* C5: getAvailability lists each distinct (period, year, month) stored for the
\* ticker exactly once under its period key and nothing else; NotFound for a
\* ticker with no observation.
C5_Availability ==
    [][Served("get_ticker_availability")
       => LET res == response'.result
              combos == { << d.period, d.year, d.month >> :
                             d \in { x \in Range(fundamental_data) :
                                        x.ticker = response'.ticker } }
          IN IF combos = {} THEN res.code = 404
             ELSE /\ res.code = 200
                  /\ DOMAIN res.body = { c[1] : c \in combos }
                  /\ \A p \in DOMAIN res.body :
                        /\ \A i \in DOMAIN res.body[p] :
                              << p, res.body[p][i].year, res.body[p][i].month >>
                                  \in combos
                        /\ \A c \in combos :
                              c[1] = p =>
                                 Cardinality({ i \in DOMAIN res.body[p] :
                                     res.body[p][i] =
                                        [year |-> c[2], month |-> c[3]] }) = 1]_vars

\* An answer with two period keys, given while several observations of the
\* ticker share one (period, year, month).
C5_Witness ==
    /\ response.call = "get_ticker_availability"
    /\ response.result.code = 200
    /\ Cardinality(DOMAIN response.result.body) = 2
    /\ \E p \in DOMAIN response.result.body : Len(response.result.body[p]) >= 2
    /\ \E i, j \in DOMAIN fundamental_data :
          /\ i # j
          /\ fundamental_data[i].ticker = response.ticker
          /\ fundamental_data[j].ticker = response.ticker
          /\ fundamental_data[i].period = fundamental_data[j].period
          /\ fundamental_data[i].year = fundamental_data[j].year
          /\ fundamental_data[i].month = fundamental_data[j].month

=============================================================================
